---- MODULE Spec2Model ----
(***************************************************************************)
(* A model of beautiful-gradient-mcp: the profile store (database.py),     *)
(* the JWT verifier and the Stytch authenticate calls (auth.py), the       *)
(* gradient catalog (gradients.py) and the MCP tool handlers (main.py).    *)
(*                                                                         *)
(* The profile store is modelled as SQLAlchemy sessions working on one     *)
(* committed table.  One call of get_or_create_profile is a sequence of    *)
(* database round trips (query, commit, refresh); between two round trips  *)
(* of one session another session may run.  Spec lets the sessions         *)
(* interleave (several server processes on one DATABASE_URL); SerialSpec   *)
(* runs one call at a time (one event loop: the handler does not await     *)
(* between get_db() and db.close()).                                       *)
(*                                                                         *)
(* datetime.utcnow() is read as a clock that does not run backwards and    *)
(* that has advanced between two statements that read it; the two column   *)
(* defaults of one INSERT may read the same instant.                       *)
(*                                                                         *)
(* JwtSpec applies verify_jwt_token to every token, configuration and      *)
(* state of the JWKS endpoint of a bounded set.  PyJWT's part (key lookup, *)
(* signature, claims, in that order) is modelled by the exception it       *)
(* raises, which decides the except branch of verify_jwt_token.            *)
(*                                                                         *)
(* GatewaySpec follows one MCP tool request: the token verifier on its     *)
(* credential, if it has one, then a tool handler, on a store that holds   *)
(* no row or one row for the subject.  StytchSpec applies the two          *)
(* authenticate calls to every configuration and answer of the network.    *)
(*                                                                         *)
(* ExtractSpec applies extract_twitter_profile to every payload of a       *)
(* bounded set: each dict of the payload is an object, null or missing,    *)
(* each field a value, null or missing.  SaveSpec follows one request of   *)
(* /api/save-profile from its body through the session verifier and the    *)
(* extractor to the upsert, the response and db.close().                   *)
(***************************************************************************)
EXTENDS Integers, Sequences, FiniteSets, TLC

\* ------------------------------------------------------------------ bounds

\* Calls of the store (get_or_create_profile, get_profile_by_user_id) in one
\* behaviour.
MaxCalls == 3

\* ------------------------------------------------------------------ values

\* Python's None, as a column value or a dict value.
NoneVal == "None"

Sessions == {"s1", "s2"}

\* Values of stytch_user_id that name a user, and of the Twitter columns.
Subjects == {"u1"}

\* The three columns get_or_create_profile compares and overwrites.
SyncedColumns == {"twitter_handle", "display_name", "avatar_url"}

\* A twitter_profile dict as extract_twitter_profile builds it.
Cand(id, tid, handle, name, avatar) ==
    [stytch_user_id |-> id, twitter_id |-> tid, twitter_handle |-> handle,
     display_name |-> name, avatar_url |-> avatar]

\* The twitter_profile dicts handed to get_or_create_profile: candidates
\* that differ from one another in one, two or three of the synced columns,
\* in the Twitter id, and one without a stytch_user_id.
Candidates ==
    {Cand("u1", "t1", "a", "x", "p"),
     Cand("u1", "t1", "b", "x", "p"),
     Cand("u1", "t1", "a", "y", "p"),
     Cand("u1", "t2", "b", "y", "q"),
     Cand(NoneVal, "t1", "a", "x", "p")}

\* A row of the profiles table; exists = FALSE stands for "no such row"
\* (what Query.first() returns as None).
NoRow ==
    [exists |-> FALSE, twitter_id |-> NoneVal, twitter_handle |-> NoneVal,
     display_name |-> NoneVal, avatar_url |-> NoneVal,
     created_at |-> 0, updated_at |-> 0]

NoCandidate ==
    [stytch_user_id |-> NoneVal, twitter_id |-> NoneVal,
     twitter_handle |-> NoneVal, display_name |-> NoneVal,
     avatar_url |-> NoneVal]

VARIABLES
    table,      \* committed rows of "profiles", by stytch_user_id
    now,        \* the last value datetime.utcnow() returned
    sess,       \* per session: where its get_or_create_profile call stands
    calls,      \* calls of the store begun so far
    prev,       \* the last call of get_or_create_profile that returned
    jwt,        \* the call of verify_jwt_token: its inputs and its outcome
    mcp,        \* the MCP tool request: its credential, its identity, its answer
    stytch,     \* the call of the Stytch authenticate API: inputs and outcome
    save,       \* the request of /api/save-profile: its inputs, its stage, its answer
    ext         \* the call of extract_twitter_profile: its payload and its result

vars == <<table, now, sess, calls, prev, jwt, mcp, stytch, save, ext>>

\* ------------------------------------------------------------------ Profile

\* class Profile: the row db.add(profile) inserts.  created_at and updated_at
\* are column defaults, each its own evaluation of datetime.utcnow at flush
\* time, created_at first: the second reading is the same instant or later.
\* Mutant: the two defaults evaluated in the other order.
NewProfileDefaultsSwapped(cand, t1, t2) ==
    [exists |-> TRUE,
     twitter_id |-> cand.twitter_id,
     twitter_handle |-> cand.twitter_handle,
     display_name |-> cand.display_name,
     avatar_url |-> cand.avatar_url,
     created_at |-> t2,
     updated_at |-> t1]

NewProfile(cand, t1, t2) ==
    [exists |-> TRUE,
     twitter_id |-> cand.twitter_id,
     twitter_handle |-> cand.twitter_handle,
     display_name |-> cand.display_name,
     avatar_url |-> cand.avatar_url,
     created_at |-> t1,
     updated_at |-> t2]

\* The values of the three synced columns of a row or of a candidate.
Synced(r) == [c \in SyncedColumns |-> r[c]]

\* ------------------------------------------------------------------ get_or_create_profile

\* db.query(Profile).filter_by(stytch_user_id=...).first()
QueryFirst(tbl, id) == tbl[id]

\* Mutant: the Twitter id is compared as well (and found different for good,
\* since it is never assigned).
DirtyColumnsWithTwitterId(profile, cand) ==
    {c \in SyncedColumns : profile[c] # cand[c]}
        \cup (IF profile.twitter_id # cand.twitter_id
              THEN {"twitter_handle"} ELSE {})

\* Mutant: the Twitter id is one of the columns compared and assigned.
DirtyColumnsSyncingTwitterId(profile, cand) ==
    {c \in SyncedColumns \cup {"twitter_id"} : profile[c] # cand[c]}

\* Lines 89-103: the columns whose loaded value differs from the candidate's;
\* each of them is assigned the candidate's value, and needs_update is set.
DirtyColumns(profile, cand) ==
    {c \in SyncedColumns : profile[c] # cand[c]}

\* Mutant: line 106 missing, updated_at keeps its loaded value.
AssignedNoTimestamp(profile, cand, t) ==
    [c \in DOMAIN profile |->
        IF c \in DirtyColumns(profile, cand) THEN cand[c] ELSE profile[c]]

\* Lines 92-106: the session's object after the assignments.
Assigned(profile, cand, t) ==
    LET dirty == DirtyColumns(profile, cand)
    IN  IF dirty = {} THEN profile
        ELSE [c \in DOMAIN profile |->
                 IF c \in dirty THEN cand[c]
                 ELSE IF c = "updated_at" THEN t
                 ELSE profile[c]]

\* db.commit() of a modified object: the unit of work emits
\* UPDATE profiles SET <the attributes that were assigned> WHERE pk = id,
\* which acts on the row as it is committed then, not on the row loaded.
FlushUpdate(tbl, id, obj, dirty) ==
    [tbl EXCEPT ![id] =
        [c \in DOMAIN tbl[id] |->
            IF c \in dirty \cup {"updated_at"} THEN obj[c] ELSE tbl[id][c]]]

\* db.add(profile); db.commit(): INSERT of the new row.
FlushInsert(tbl, id, obj) == [tbl EXCEPT ![id] = obj]

\* Mutant: the error path clears the table.
RollbackDeletes(tbl) == [id \in DOMAIN tbl |-> NoRow]

\* db.rollback(): the transaction's statements are undone; committed rows stay.
Rollback(tbl) == tbl

\* `if not stytch_user_id`: None and the empty string are refused.
HasSubject(cand) == cand.stytch_user_id \in Subjects

Idle ==
    [pc |-> "idle", op |-> "none", cand |-> NoCandidate, snap |-> NoRow, obj |-> NoRow,
     dirty |-> {}, result |-> "pending", ret |-> NoRow, failAt |-> "none",
     wrote |-> FALSE]

NoPrev == [cand |-> NoCandidate, ok |-> FALSE]

\* Every other session is between calls.
Quiet(s) == \A t \in Sessions \ {s} : sess[t].pc = "idle"

AllQuiet == \A t \in Sessions : sess[t].pc = "idle"

\* Lines 73-77: called without a stytch_user_id: None, no database access.
CallNoSubject(s, cand) ==
    /\ sess[s].pc = "idle"
    /\ calls < MaxCalls
    /\ ~HasSubject(cand)
    /\ sess' = [sess EXCEPT ![s] =
                  [Idle EXCEPT !.op = "upsert", !.pc = "done", !.cand = cand,
                               !.result = "none"]]
    /\ calls' = calls + 1
    /\ UNCHANGED <<jwt, mcp, stytch, save, ext, table, now, prev>>

\* Line 83 raises: except branch, db.rollback(), return None.
CallQueryFails(s, cand) ==
    /\ sess[s].pc = "idle"
    /\ calls < MaxCalls
    /\ HasSubject(cand)
    /\ sess' = [sess EXCEPT ![s] =
                  [Idle EXCEPT !.op = "upsert", !.pc = "done", !.cand = cand,
                               !.result = "none", !.failAt = "query"]]
    /\ table' = Rollback(table)
    /\ calls' = calls + 1
    /\ UNCHANGED <<jwt, mcp, stytch, save, ext, now, prev>>

\* Lines 83-106 with a row found: the query, the three comparisons and
\* assignments, and updated_at = datetime.utcnow() when needs_update.
CallQueryFound(s, cand) ==
    /\ sess[s].pc = "idle"
    /\ calls < MaxCalls
    /\ HasSubject(cand)
    /\ LET profile == QueryFirst(table, cand.stytch_user_id)
           dirty == DirtyColumns(profile, cand)
       IN  /\ profile.exists
           /\ IF dirty # {}
              THEN /\ now' = now + 1
                   /\ sess' = [sess EXCEPT ![s] =
                         [Idle EXCEPT !.op = "upsert", !.pc = "update", !.cand = cand,
                                      !.snap = profile,
                                      !.obj = Assigned(profile, cand, now + 1),
                                      !.dirty = dirty]]
              ELSE /\ now' = now
                   /\ sess' = [sess EXCEPT ![s] =
                         [Idle EXCEPT !.op = "upsert", !.pc = "done", !.cand = cand,
                                      !.snap = profile, !.obj = profile,
                                      !.result = "profile", !.ret = profile]]
    /\ calls' = calls + 1
    /\ UNCHANGED <<jwt, mcp, stytch, save, ext, table, prev>>

\* Lines 83, 111-120 with no row found: the new Profile is added to the session.
CallQueryAbsent(s, cand) ==
    /\ sess[s].pc = "idle"
    /\ calls < MaxCalls
    /\ HasSubject(cand)
    /\ ~QueryFirst(table, cand.stytch_user_id).exists
    /\ sess' = [sess EXCEPT ![s] =
                  [Idle EXCEPT !.op = "upsert", !.pc = "insert",
                               !.cand = cand]]
    /\ calls' = calls + 1
    /\ UNCHANGED <<jwt, mcp, stytch, save, ext, table, now, prev>>

\* Line 107, db.commit() after an update: flush of the UPDATE and COMMIT.
CommitUpdate(s) ==
    /\ sess[s].pc = "update"
    /\ table' = FlushUpdate(table, sess[s].cand.stytch_user_id,
                            sess[s].obj, sess[s].dirty)
    /\ sess' = [sess EXCEPT ![s].pc = "refresh", ![s].wrote = TRUE]
    /\ UNCHANGED <<jwt, mcp, stytch, save, ext, now, calls, prev>>

\* Line 121, db.commit() after db.add: flush of the INSERT and COMMIT.  The
\* primary key refuses a second row for the subject (IntegrityError).
CommitInsert(s) ==
    /\ sess[s].pc = "insert"
    /\ LET id == sess[s].cand.stytch_user_id
       IN  IF table[id].exists
           THEN /\ table' = Rollback(table)
                /\ now' = now
                /\ sess' = [sess EXCEPT ![s].pc = "done", ![s].result = "none",
                                        ![s].failAt = "insert"]
           ELSE \E d \in {0, 1} :
                /\ now' = now + 1 + d
                /\ table' = FlushInsert(table, id,
                              NewProfile(sess[s].cand, now + 1, now + 1 + d))
                /\ sess' = [sess EXCEPT ![s].pc = "refresh", ![s].wrote = TRUE]
    /\ UNCHANGED <<jwt, mcp, stytch, save, ext, calls, prev>>

\* db.commit() raises, in the flush (the INSERT or UPDATE statement) or in the
\* COMMIT: except branch, db.rollback(), return None.
CommitFails(s, at) ==
    /\ sess[s].pc \in {"update", "insert"}
    /\ at = (IF sess[s].pc = "update" THEN "update" ELSE "insert") \/ at = "commit"
    /\ table' = Rollback(table)
    /\ sess' = [sess EXCEPT ![s].pc = "done", ![s].result = "none",
                            ![s].failAt = at]
    /\ UNCHANGED <<jwt, mcp, stytch, save, ext, now, calls, prev>>

\* Lines 108 and 122, db.refresh(profile): the object is reloaded from the
\* committed row; line 125 returns it.
Refresh(s) ==
    /\ sess[s].pc = "refresh"
    /\ sess' = [sess EXCEPT ![s].pc = "done", ![s].result = "profile",
                            ![s].ret = QueryFirst(table, sess[s].cand.stytch_user_id)]
    /\ UNCHANGED <<jwt, mcp, stytch, save, ext, table, now, calls, prev>>

\* db.refresh(profile) raises after the commit went through: except branch,
\* db.rollback() of a transaction that holds nothing, return None.
RefreshFails(s) ==
    /\ sess[s].pc = "refresh"
    /\ table' = Rollback(table)
    /\ sess' = [sess EXCEPT ![s].pc = "done", ![s].result = "none",
                            ![s].failAt = "refresh"]
    /\ UNCHANGED <<jwt, mcp, stytch, save, ext, now, calls, prev>>

\* The caller's finally: db.close(); the session is free for the next request.
Close(s) ==
    /\ sess[s].pc = "done"
    /\ prev' = IF sess[s].op = "upsert"
               THEN [cand |-> sess[s].cand, ok |-> sess[s].result = "profile"]
               ELSE prev
    /\ sess' = [sess EXCEPT ![s] = Idle]
    /\ UNCHANGED <<jwt, mcp, stytch, save, ext, table, now, calls>>

\* ------------------------------------------------------------------ get_profile_by_user_id

\* What the function returns: the row, or None when the query finds none, or
\* None from the except branch when the query raises.
ProfileByUserId(tbl, id, fails) ==
    IF fails THEN NoRow ELSE QueryFirst(tbl, id)

\* One call, on a session of its own (get_db() ... db.close() in the caller).
GetProfileByUserId(s, id, fails) ==
    /\ sess[s].pc = "idle"
    /\ calls < MaxCalls
    /\ calls' = calls + 1
    /\ LET r == ProfileByUserId(table, id, fails)
       IN  sess' = [sess EXCEPT ![s] =
                [Idle EXCEPT !.op = "get", !.pc = "done",
                             !.cand = [NoCandidate EXCEPT !.stytch_user_id = id],
                             !.snap = table[id],
                             !.result = IF r.exists THEN "profile" ELSE "none",
                             !.ret = r,
                             !.failAt = IF fails THEN "query" ELSE "none"]]
    /\ UNCHANGED <<jwt, mcp, stytch, save, ext, table, now, prev>>

\* ------------------------------------------------------------------ verify_jwt_token

\* STYTCH_PROJECT_ID when it is set, and STYTCH_AUTHORIZATION_SERVER.
ProjectId == "project-test"
AuthorizationServer == "https://issuer"

\* Key ids of the provider's signing keys; a key is named by its key id.
Kids == {"k1", "k2"}

\* The key sets the JWKS endpoint may publish at the time of a call.
KeySets == {{}, {"k1"}, {"k1", "k2"}}

\* The time of the verification, and the range of the exp claim around it.
VerifyTime == 1
ExpTimes == 0..2

\* A presented token.  form: whether it parses as a JWT; kid and alg: its
\* header; signer: the key whose private half made the signature; the rest:
\* its claims, NoneVal for a claim that is absent.
Tokens ==
    {t \in [form : {"jwt", "garbage"},
            kid : Kids,
            alg : {"RS256", "HS256"},
            signer : Kids,
            iat : {"int", "str"},
            has_exp : BOOLEAN,
            exp : ExpTimes,
            iss : {AuthorizationServer, "https://other", NoneVal},
            aud : {ProjectId, "other-project", NoneVal},
            sub : {"u1", "", NoneVal}] :
        /\ ~t.has_exp => t.exp = 0
        /\ t.form = "garbage" =>
              /\ t.kid = "k1" /\ t.alg = "RS256" /\ t.signer = "k1"
              /\ t.iat = "int" /\ ~t.has_exp /\ t.iss = NoneVal
              /\ t.aud = NoneVal /\ t.sub = NoneVal}

\* What one call ends in: the except branch (or the return) taken, and the
\* exception of the library that led there.
Outcome(kind, detail) == [kind |-> kind, detail |-> detail]

\* jwks_client.get_signing_key_from_jwt(token), line 62: the header is
\* decoded, the key set fetched, the key looked up by the header's kid.
SigningKeyOutcome(token, keys, up) ==
    IF token.form # "jwt" THEN Outcome("Failed", "DecodeError")
    ELSE IF ~up THEN Outcome("Failed", "PyJWKClientConnectionError")
    ELSE IF keys = {} THEN Outcome("Failed", "PyJWKClientError")
    ELSE IF token.kid \notin keys THEN Outcome("Failed", "PyJWKClientError")
    ELSE Outcome("Key", token.kid)

\* GETs of the JWKS endpoint in one call.  The client is built anew in each
\* call (line 58), so nothing is cached across calls; the code never asks
\* again.  On a kid that is not in the fetched set, newer releases of the
\* library fetch once more before they give up (refetch).
JwksFetches(token, keys, up, refetch) ==
    IF token.form # "jwt" THEN 0
    ELSE IF up /\ keys # {} /\ token.kid \notin keys /\ refetch THEN 2
    ELSE 1

\* Mutant: "verify_exp": False.
ClaimsOutcomeNoExpiry(token, at) ==
    IF token.iat # "int" THEN Outcome("Failed", "InvalidIssuedAtError")
    ELSE IF token.iss = NoneVal THEN Outcome("Failed", "MissingRequiredClaimError")
    ELSE IF token.iss # AuthorizationServer THEN Outcome("InvalidIssuer", "InvalidIssuerError")
    ELSE IF token.aud = NoneVal THEN Outcome("Failed", "MissingRequiredClaimError")
    ELSE IF token.aud # ProjectId THEN Outcome("InvalidAudience", "InvalidAudienceError")
    ELSE Outcome("Ok", "claims")

\* jwt.decode(...), lines 66-79, once the signature is verified: the claims
\* are validated in the library's order iat, exp, iss, aud, and the except
\* branches of lines 93-108 name the outcome.
ClaimsOutcome(token, at) ==
    IF token.iat # "int" THEN Outcome("Failed", "InvalidIssuedAtError")
    ELSE IF token.has_exp /\ token.exp <= at
        THEN Outcome("Expired", "ExpiredSignatureError")
    ELSE IF token.iss = NoneVal THEN Outcome("Failed", "MissingRequiredClaimError")
    ELSE IF token.iss # AuthorizationServer THEN Outcome("InvalidIssuer", "InvalidIssuerError")
    ELSE IF token.aud = NoneVal THEN Outcome("Failed", "MissingRequiredClaimError")
    ELSE IF token.aud # ProjectId THEN Outcome("InvalidAudience", "InvalidAudienceError")
    ELSE Outcome("Ok", "claims")

\* jwt.decode(...), lines 66-79: the algorithm of the header must be RS256,
\* then the signature is verified with the key found, then the claims.
DecodeOutcome(token, key, at) ==
    IF token.alg # "RS256" THEN Outcome("Failed", "InvalidAlgorithmError")
    ELSE IF token.signer # key THEN Outcome("InvalidSignature", "InvalidSignatureError")
    ELSE ClaimsOutcome(token, at)

\* verify_jwt_token(token), lines 48-108.
VerifyJwtOutcome(project_id, token, keys, up, at) ==
    IF project_id = "" THEN Outcome("Misconfigured", "ValueError")
    ELSE LET k == SigningKeyOutcome(token, keys, up)
         IN  IF k.kind # "Key" THEN k
             ELSE DecodeOutcome(token, k.detail, at)

NoOutcome == Outcome("pending", "none")

\* No call of verify_jwt_token is being looked at.
JwtIdle ==
    [pc |-> "idle", project_id |-> ProjectId,
     token |-> CHOOSE t \in Tokens : t.form = "garbage",
     keys |-> {}, up |-> FALSE, out |-> NoOutcome, fetches |-> 0]

\* A call about to be made: the configuration, the token presented and the
\* state of the JWKS endpoint.
JwtCalls ==
    [pc : {"called"}, project_id : {ProjectId, ""}, token : Tokens,
     keys : KeySets, up : BOOLEAN, out : {NoOutcome}, fetches : {0}]

\* The call runs to its return or raise.
VerifyJwtToken(refetch) ==
    /\ jwt.pc = "called"
    /\ jwt' = [jwt EXCEPT
                 !.pc = "done",
                 !.out = VerifyJwtOutcome(jwt.project_id, jwt.token, jwt.keys,
                                          jwt.up, VerifyTime),
                 !.fetches = IF jwt.project_id = "" THEN 0
                             ELSE JwksFetches(jwt.token, jwt.keys, jwt.up, refetch)]
    /\ UNCHANGED <<table, now, sess, calls, prev, mcp, stytch, save, ext>>

\* ------------------------------------------------------------------ StytchVerifier.verify_token

\* Text is a sequence of characters, so that splitting it is computed.
Chars(a, b, c, d) == <<a, b, c, d>>

\* The scope claim: absent, the empty string, three scopes with more white
\* space than one blank between and before them.
NoScope == <<NoneVal>>
ScopeClaims == {NoScope, <<>>, Chars(" ", "r", " ", " ") \o Chars("w", "x", " ", "y")}

\* The claims next to the registered ones that verify_token reads.
ExtraClaims == [azp : {"app", NoneVal}, client_id : {"cid", NoneVal}, scope : ScopeClaims]

\* The dict jwt.decode returns for a token: its claims, NoneVal (NoScope)
\* for a claim the token does not carry.
JwtClaims(token, extra) ==
    [sub |-> token.sub, iss |-> token.iss, aud |-> token.aud,
     has_exp |-> token.has_exp, exp |-> token.exp,
     azp |-> extra.azp, client_id |-> extra.client_id, scope |-> extra.scope]

NoClaims ==
    [sub |-> NoneVal, iss |-> NoneVal, aud |-> NoneVal, has_exp |-> FALSE,
     exp |-> 0, azp |-> NoneVal, client_id |-> NoneVal, scope |-> NoScope]

\* str.split(): the words between runs of white space, none of them empty.
RECURSIVE SplitFrom(_, _, _)
SplitFrom(text, word, words) ==
    IF text = <<>> THEN (IF word = <<>> THEN words ELSE Append(words, word))
    ELSE IF Head(text) = " "
        THEN SplitFrom(Tail(text), <<>>,
                       IF word = <<>> THEN words ELSE Append(words, word))
    ELSE SplitFrom(Tail(text), Append(word, Head(text)), words)

Split(text) == SplitFrom(text, <<>>, <<>>)

\* jwt_claims.get("azp", jwt_claims.get("client_id", "")), line 85.
ClientIdOf(claims) ==
    IF claims.azp # NoneVal THEN claims.azp
    ELSE IF claims.client_id # NoneVal THEN claims.client_id
    ELSE ""

\* Line 94: the scopes of the scope claim, none when the claim is absent.
ScopesOf(claims) ==
    IF claims.scope = NoScope THEN <<>> ELSE Split(claims.scope)

\* What verify_token returns: a StytchAccessToken, or None (present = FALSE).
NoAccess ==
    [present |-> FALSE, subject |-> NoneVal, client_id |-> NoneVal,
     scopes |-> <<>>, claims |-> NoClaims]

\* Mutant: the authorized party is taken for the subject.
VerifyTokenClientAsSubject(token, extra, outcome) ==
    IF outcome.kind # "Ok" THEN NoAccess
    ELSE LET jwt_claims == JwtClaims(token, extra)
         IN  IF jwt_claims.sub \in {NoneVal, ""} THEN NoAccess
             ELSE [present |-> TRUE, subject |-> ClientIdOf(jwt_claims),
                   client_id |-> ClientIdOf(jwt_claims),
                   scopes |-> ScopesOf(jwt_claims), claims |-> jwt_claims]

\* Mutant: lines 87-89 missing, the sub claim is not looked at.
VerifyTokenNoSubjectCheck(token, extra, outcome) ==
    IF outcome.kind # "Ok" THEN NoAccess
    ELSE LET jwt_claims == JwtClaims(token, extra)
         IN  [present |-> TRUE, subject |-> jwt_claims.sub,
              client_id |-> ClientIdOf(jwt_claims),
              scopes |-> ScopesOf(jwt_claims), claims |-> jwt_claims]

\* verify_token(token), lines 76-107, given what verify_jwt_token ended in:
\* every exception and a missing sub claim end in None.
VerifyToken(token, extra, outcome) ==
    IF outcome.kind # "Ok" THEN NoAccess
    ELSE LET jwt_claims == JwtClaims(token, extra)
         IN  IF jwt_claims.sub \in {NoneVal, ""} THEN NoAccess
             ELSE [present |-> TRUE, subject |-> jwt_claims.sub,
                   client_id |-> ClientIdOf(jwt_claims),
                   scopes |-> ScopesOf(jwt_claims), claims |-> jwt_claims]

\* ------------------------------------------------------------------ gradients.py

GRADIENTS == <<
    [name |-> "Sunset Blaze", colors |-> <<"#FF6B6B", "#FFE66D">>, angle |-> 135],
    [name |-> "Ocean Deep", colors |-> <<"#00D4FF", "#0099FF">>, angle |-> 180],
    [name |-> "Forest Dawn", colors |-> <<"#11998E", "#38EF7D">>, angle |-> 120],
    [name |-> "Purple Haze", colors |-> <<"#9D50BB", "#6E48AA">>, angle |-> 135],
    [name |-> "Fire Burst", colors |-> <<"#FF512F", "#DD2476">>, angle |-> 45],
    [name |-> "Candy Floss", colors |-> <<"#FFA8D5", "#FF85E4">>, angle |-> 90],
    [name |-> "Northern Lights", colors |-> <<"#00C9FF", "#92FE9D">>, angle |-> 45],
    [name |-> "Peachy Keen", colors |-> <<"#FF9A56", "#FFBE76">>, angle |-> 180],
    [name |-> "Neon Nights", colors |-> <<"#FF006E", "#8338EC">>, angle |-> 135],
    [name |-> "Emerald Sea", colors |-> <<"#08AEEA", "#2AF598">>, angle |-> 90],
    [name |-> "Lavender Dream", colors |-> <<"#B993D6", "#8CA6DB">>, angle |-> 120],
    [name |-> "Cosmic Dust", colors |-> <<"#7F00FF", "#E100FF">>, angle |-> 45],
    [name |-> "Mango Tango", colors |-> <<"#FF8008", "#FFC837">>, angle |-> 90],
    [name |-> "Sky Blue", colors |-> <<"#56CCF2", "#2F80ED">>, angle |-> 180],
    [name |-> "Rose Gold", colors |-> <<"#F093FB", "#F5576C">>, angle |-> 135],
    [name |-> "Mint Fresh", colors |-> <<"#A8EDEA", "#FED6E3">>, angle |-> 120],
    [name |-> "Electric Violet", colors |-> <<"#4776E6", "#8E54E9">>, angle |-> 45],
    [name |-> "Citrus Burst", colors |-> <<"#FDFC47", "#24FE41">>, angle |-> 90],
    [name |-> "Cherry Blossom", colors |-> <<"#FBC2EB", "#A6C1EE">>, angle |-> 135],
    [name |-> "Aqua Marine", colors |-> <<"#1CB5E0", "#000851">>, angle |-> 180],
    [name |-> "Golden Hour", colors |-> <<"#FDBB2D", "#22C1C3">>, angle |-> 45],
    [name |-> "Berry Smoothie", colors |-> <<"#E94057", "#8A2387">>, angle |-> 120],
    [name |-> "Ice Blue", colors |-> <<"#AAFFA9", "#11FFBD">>, angle |-> 90],
    [name |-> "Sunset Purple", colors |-> <<"#6D28D9", "#DB2777">>, angle |-> 135],
    [name |-> "Coral Reef", colors |-> <<"#FF7E5F", "#FEB47B">>, angle |-> 180]
>>

\* GRADIENTS[index] of the code, whose lists count from 0.
GradientAt(index) == GRADIENTS[index + 1]

\* Mutant: the upper end of the range is let through to the last preset.
ClampIndexUpperOpen(index) ==
    IF ~(0 <= index /\ index <= Len(GRADIENTS))
        THEN 0
    ELSE IF index = Len(GRADIENTS) THEN index - 1 ELSE index

\* "if not 0 <= index < len(GRADIENTS): index = 0", gradients.py lines
\* 133-134 and main.py lines 422-423.
ClampIndex(index) ==
    IF ~(0 <= index /\ index < Len(GRADIENTS)) THEN 0 ELSE index

\* get_gradient_css(index): the CSS text, piece by piece.
get_gradient_css(index) ==
    LET gradient == GradientAt(ClampIndex(index))
    IN  <<"linear-gradient(", gradient.angle, "deg, ",
          gradient.colors[1], ", ", gradient.colors[2], ")">>

\* ------------------------------------------------------------------ MCP tool handlers

\* How far outside the catalog the gradientIndex arguments reach.
IndexMargin == 3

GradientIndexes == (0 - IndexMargin)..(Len(GRADIENTS) - 1 + IndexMargin)

\* The arguments of create-gradient-tweet; has_index = FALSE when the
\* request leaves gradientIndex out.
ToolArguments ==
    {a \in [tweetContent : {"", "hello"}, has_index : BOOLEAN,
            gradientIndex : GradientIndexes] :
        /\ ~a.has_index => a.gradientIndex = 0
        /\ a.tweetContent = "" => a.has_index /\ a.gradientIndex \in {0, 1}}

NoArguments == [tweetContent |-> "", has_index |-> FALSE, gradientIndex |-> 0]

\* The profile shown when there is none to show, lines 451-475.
DefaultProfile ==
    [handle |-> "twitter_user", name |-> "Twitter User",
     avatar |-> "https://abs.twimg.com/sticky/default_profile_images/default_profile_400x400.png"]

\* "value or fallback" of Python on a column that holds a string or None.
OrElse(value, fallback) == IF value \in {NoneVal, ""} THEN fallback ELSE value

\* Lines 451-458: the profile shown for a row that was found.
TwitterData(profile) ==
    [handle |-> OrElse(profile.twitter_handle, DefaultProfile.handle),
     name |-> OrElse(profile.display_name, DefaultProfile.name),
     avatar |-> OrElse(profile.avatar_url, DefaultProfile.avatar)]

\* A CallToolResult: isError, the text, and the structured content, whose
\* keys are those of get-my-profile (user_id .. jwt_claims) and those of
\* create-gradient-tweet (tweetContent .. timestamp); structured = "none"
\* when the result carries no structured content.
NoResult ==
    [isError |-> FALSE, text |-> "none", structured |-> "none",
     user_id |-> NoneVal, client_id |-> NoneVal, scopes |-> <<>>,
     jwt_claims |-> NoClaims,
     tweetContent |-> "", gradientIndex |-> 0, gradientName |-> NoneVal,
     profile |-> DefaultProfile, timestamp |-> 0]

\* Mutant: the handler does not look whether there is an access token.
GetMyProfileResultUnchecked(access) ==
    [NoResult EXCEPT !.text = "Profile Information", !.structured = "profile_data",
                     !.user_id = access.subject, !.client_id = access.client_id,
                     !.scopes = access.scopes, !.jwt_claims = access.claims]

\* handle_get_my_profile, lines 341-393, on what get_access_token() gives.
GetMyProfileResult(access) ==
    IF ~access.present
        THEN [NoResult EXCEPT !.isError = TRUE, !.text = "Authentication required"]
    ELSE [NoResult EXCEPT !.text = "Profile Information", !.structured = "profile_data",
                          !.user_id = access.subject, !.client_id = access.client_id,
                          !.scopes = access.scopes, !.jwt_claims = access.claims]

\* Where the profile lookup of create-gradient-tweet may fail: nowhere, in
\* get_db(), in the query, in db.close().
StoreFailures == {"none", "session", "query", "close"}

\* Mutant: the lookup does not ask whether there is an identity.
LookupProfileOfAnyone(access, tbl, failure) ==
    IF failure \in {"session", "close"} THEN NoRow
    ELSE ProfileByUserId(tbl, "u1", failure = "query")

\* Lines 429-448 and 468-470: the row the handler goes on with; NoRow for
\* "profile = None" and for the except branch.
LookupProfile(access, tbl, failure) ==
    IF ~(access.present /\ access.subject \notin {NoneVal, ""}) THEN NoRow
    ELSE IF failure \in {"session", "close"} THEN NoRow
    ELSE ProfileByUserId(tbl, access.subject, failure = "query")

\* Mutant: a row that was found is not used.
ShownProfileAlwaysDefault(profile) == DefaultProfile

\* Lines 450-465.
ShownProfile(profile) ==
    IF profile.exists THEN TwitterData(profile) ELSE DefaultProfile

\* Mutant: a lookup that raised is answered with an error result.
CreateGradientTweetResultSurfacing(arguments, access, tbl, failure, at) ==
    LET gradient_index ==
            ClampIndex(IF arguments.has_index THEN arguments.gradientIndex ELSE 0)
        profile == LookupProfile(access, tbl, failure)
    IN  IF access.present /\ failure # "none"
            THEN [NoResult EXCEPT !.isError = TRUE, !.text = "Error"]
        ELSE [NoResult EXCEPT
                !.text = "Created gradient tweet",
                !.structured = "tweet",
                !.tweetContent = arguments.tweetContent,
                !.gradientIndex = gradient_index,
                !.gradientName = GradientAt(gradient_index).name,
                !.profile = ShownProfile(profile),
                !.timestamp = at]

\* handle_create_gradient_tweet, lines 418-516: isError is never set.
CreateGradientTweetResult(arguments, access, tbl, failure, at) ==
    LET gradient_index ==
            ClampIndex(IF arguments.has_index THEN arguments.gradientIndex ELSE 0)
        profile == LookupProfile(access, tbl, failure)
    IN  [NoResult EXCEPT
            !.text = "Created gradient tweet",
            !.structured = "tweet",
            !.tweetContent = arguments.tweetContent,
            !.gradientIndex = gradient_index,
            !.gradientName = GradientAt(gradient_index).name,
            !.profile = ShownProfile(profile),
            !.timestamp = at]

\* The request the server is answering.  bearer: whether it came with a
\* credential; token, extra, keys, up: the credential and the state of the
\* JWKS endpoint; access: what get_access_token() gives the handlers;
\* tool, arguments, failure: the tool call; result: its CallToolResult.
McpIdle ==
    [pc |-> "idle", bearer |-> FALSE,
     token |-> CHOOSE t \in Tokens : t.form = "garbage",
     extra |-> [azp |-> NoneVal, client_id |-> NoneVal, scope |-> NoScope],
     keys |-> {}, up |-> FALSE, access |-> NoAccess,
     tool |-> "none", arguments |-> NoArguments, failure |-> "none",
     result |-> NoResult]

\* The credentials the tool requests come with: signed by the provider's
\* key or by another, expired or not, of this issuer and audience or not,
\* with a sub claim or without.
McpTokens ==
    {t \in Tokens : /\ t.form = "jwt" /\ t.alg = "RS256" /\ t.iat = "int"
                    /\ t.kid = "k1" /\ t.iss # NoneVal /\ t.aud = ProjectId
                    /\ (t.has_exp => t.exp # VerifyTime)}

McpRequests ==
    {r \in [pc : {"received"}, bearer : BOOLEAN,
            token : McpTokens \cup {McpIdle.token},
            extra : ExtraClaims, keys : {{"k1"}}, up : {TRUE},
            access : {NoAccess}, tool : {"none"}, arguments : {NoArguments},
            failure : {"none"}, result : {NoResult}] :
        /\ r.bearer => r.token \in McpTokens
        /\ ~r.bearer => r.token = McpIdle.token /\ r.extra = McpIdle.extra}

\* The token verifier runs on the credential of the request.
VerifyTokenStep ==
    /\ mcp.pc = "received"
    /\ mcp.bearer
    /\ mcp' = [mcp EXCEPT
                 !.pc = "verified",
                 !.access = VerifyToken(mcp.token, mcp.extra,
                               VerifyJwtOutcome(ProjectId, mcp.token, mcp.keys,
                                                mcp.up, VerifyTime))]
    /\ UNCHANGED <<table, now, sess, calls, prev, jwt, stytch, save, ext>>

\* The request has reached the tool handlers.
AtHandlers == mcp.pc = "verified" \/ (mcp.pc = "received" /\ ~mcp.bearer)

\* _call_tool, lines 316-317: get-my-profile.
HandleGetMyProfile ==
    /\ AtHandlers
    /\ mcp' = [mcp EXCEPT !.pc = "answered", !.tool = "get-my-profile",
                          !.result = GetMyProfileResult(mcp.access)]
    /\ UNCHANGED <<table, now, sess, calls, prev, jwt, stytch, save, ext>>

\* Mutant: the handler stores the profile it shows.
HandleCreateGradientTweetSaving(arguments, failure) ==
    /\ AtHandlers
    /\ failure # "none" => mcp.access.present
    /\ now' = now + 1
    /\ mcp' = [mcp EXCEPT !.pc = "answered", !.tool = "create-gradient-tweet",
                          !.arguments = arguments, !.failure = failure,
                          !.result = CreateGradientTweetResult(arguments, mcp.access,
                                         table, failure, now + 1)]
    /\ table' = [id \in Subjects |->
                    NewProfile(Cand(id, NoneVal, DefaultProfile.handle,
                                    DefaultProfile.name, DefaultProfile.avatar),
                               now + 1, now + 1)]
    /\ UNCHANGED <<sess, calls, prev, jwt, stytch, save, ext>>

\* _call_tool, lines 318-319: create-gradient-tweet.  The handler reads
\* the clock for the timestamp of its result.
HandleCreateGradientTweet(arguments, failure) ==
    /\ AtHandlers
    /\ failure # "none" => mcp.access.present
    /\ now' = now + 1
    /\ mcp' = [mcp EXCEPT !.pc = "answered", !.tool = "create-gradient-tweet",
                          !.arguments = arguments, !.failure = failure,
                          !.result = CreateGradientTweetResult(arguments, mcp.access,
                                         table, failure, now + 1)]
    /\ UNCHANGED <<table, sess, calls, prev, jwt, stytch, save, ext>>

\* _call_tool, lines 320-332: any other tool name.
HandleUnknownTool ==
    /\ AtHandlers
    /\ mcp' = [mcp EXCEPT !.pc = "answered", !.tool = "unknown",
                          !.result = [NoResult EXCEPT !.isError = TRUE,
                                                      !.text = "Unknown tool"]]
    /\ UNCHANGED <<table, now, sess, calls, prev, jwt, stytch, save, ext>>

\* ------------------------------------------------------------------ verify_stytch_token, verify_stytch_session_token

\* The two functions: the OAuth token of /v1/oauth/authenticate and the
\* session token of /v1/sessions/authenticate.
Variants == {"oauth", "session"}

\* STYTCH_PROJECT_ID, STYTCH_SECRET, STYTCH_PUBLIC_TOKEN: set, or "".
Configs == [project_id : {ProjectId, ""}, secret : {"secret", ""},
            public_token : {"public", ""}]

\* What the POST ends in: a response, or an httpx.RequestError.
Transports == {"response", "ConnectError", "ReadTimeout"}
Statuses == {200, 201, 401, 500}

\* Response bodies, and what response.json() makes of them: an object as
\* the API documents it, an object whose "user" is null, an error object,
\* and text that is no JSON.
Bodies == {"{user:{..}}", "{user:null}", "{error_type:..}", "<html>"}

ParseJson(text) ==
    CASE text = "{user:{..}}"     -> [json |-> TRUE, dict |-> TRUE, user |-> "dict"]
      [] text = "{user:null}"     -> [json |-> TRUE, dict |-> TRUE, user |-> "null"]
      [] text = "{error_type:..}" -> [json |-> TRUE, dict |-> TRUE, user |-> "absent"]
      [] OTHER                    -> [json |-> FALSE, dict |-> FALSE, user |-> "absent"]

NoData == [json |-> FALSE, dict |-> FALSE, user |-> "absent"]

\* The Authorization header of the request.
NoHeader == [scheme |-> "none", credentials |-> <<>>]
Basic(project_id, secret) == [scheme |-> "Basic", credentials |-> <<project_id, ":", secret>>]
Bearer(public_token) == [scheme |-> "Bearer", credentials |-> <<public_token>>]

\* Mutant: the public token is preferred to the secret.
AuthHeaderPublicFirst(variant, config) ==
    IF variant = "session"
        THEN Basic(config.project_id, config.secret)
    ELSE IF config.public_token # "" THEN Bearer(config.public_token)
    ELSE IF config.secret # "" THEN Basic(config.project_id, config.secret)
    ELSE NoHeader

\* Lines 142-151 and 246-249: the header, NoHeader where line 151 raises.
AuthHeader(variant, config) ==
    IF variant = "session"
        THEN Basic(config.project_id, config.secret)
    ELSE IF config.secret # "" THEN Basic(config.project_id, config.secret)
    ELSE IF config.public_token # "" THEN Bearer(config.public_token)
    ELSE NoHeader

\* What a call ends in.  kind "Ok": data is returned.  Otherwise an
\* exception is raised, whose message is text followed by status (a
\* rejection) or by detail (the text of the exception wrapped); logged is
\* what the error log is given of the response; header is the header of
\* the request, NoHeader when none was sent.
StytchOutcome(kind, text, status, detail, logged, header, data) ==
    [kind |-> kind, text |-> text, status |-> status, detail |-> detail,
     logged |-> logged, header |-> header, data |-> data]

NotLogged == [status |-> 0, body |-> NoneVal]

\* The text of the exception of a rejection, lines 202 and 316.
RejectionText(variant) ==
    IF variant = "oauth" THEN "Stytch authentication failed: "
    ELSE "Stytch session authentication failed: "

\* Mutant: any 2xx status is taken for a success.
ResponseOutcomeAny2xx(variant, header, status, body) ==
    IF status = 200 \/ status = 201
        THEN LET data == ParseJson(body)
             IN  IF ~data.json
                     THEN StytchOutcome("Unexpected", "", 0, "JSONDecodeError",
                                        NotLogged, header, NoData)
                 ELSE IF data.user = "null"
                     THEN StytchOutcome("Unexpected", "", 0, "AttributeError",
                                        NotLogged, header, NoData)
                 ELSE StytchOutcome("Ok", "", status, "", NotLogged, header, data)
    ELSE StytchOutcome("Rejected", RejectionText(variant), status, "",
                       [status |-> status, body |-> body], header, NoData)

\* Lines 168-202 and 264-316: the response is looked at.  On 200 the body
\* is parsed and its "user" read for the log, and whatever that raises is
\* raised again by lines 209-212 (323-326); on any other status the status
\* and the body are logged and the exception names the status.
ResponseOutcome(variant, header, status, body) ==
    IF status = 200
        THEN LET data == ParseJson(body)
             IN  IF ~data.json
                     THEN StytchOutcome("Unexpected", "", 0, "JSONDecodeError",
                                        NotLogged, header, NoData)
                 ELSE IF data.user = "null"
                     THEN StytchOutcome("Unexpected", "", 0, "AttributeError",
                                        NotLogged, header, NoData)
                 ELSE StytchOutcome("Ok", "", status, "", NotLogged, header, data)
    ELSE StytchOutcome("Rejected", RejectionText(variant), status, "",
                       [status |-> status, body |-> body], header, NoData)

\* Mutant: a request that timed out is reported as a rejection.
TransportOutcomeAsRejection(variant, header, transport) ==
    IF transport = "ReadTimeout"
        THEN StytchOutcome("Rejected", RejectionText(variant), 500, "",
                           NotLogged, header, NoData)
    ELSE StytchOutcome("NetworkError", "Network error contacting Stytch: ", 0,
                       transport, NotLogged, header, NoData)

\* Lines 204-207 and 318-321: httpx.RequestError.
TransportOutcome(variant, header, transport) ==
    StytchOutcome("NetworkError", "Network error contacting Stytch: ", 0,
                  transport, NotLogged, header, NoData)

\* The configuration the function refuses to work with, lines 131-133,
\* 149-151 and 238-240.
Refused(variant, config) ==
    IF variant = "oauth"
        THEN config.project_id = "" \/ AuthHeader(variant, config) = NoHeader
    ELSE config.project_id = "" \/ config.secret = ""

RefusalText(variant, config) ==
    IF variant = "oauth" /\ config.project_id = ""
        THEN "Stytch Project ID not configured"
    ELSE "Stytch credentials not configured"

\* verify_stytch_token(token), verify_stytch_session_token(session_token).
VerifyStytchOutcome(variant, config, transport, status, body) ==
    IF Refused(variant, config)
        THEN StytchOutcome("ValueError", RefusalText(variant, config), 0, "",
                           NotLogged, NoHeader, NoData)
    ELSE IF transport # "response"
        THEN TransportOutcome(variant, AuthHeader(variant, config), transport)
    ELSE ResponseOutcome(variant, AuthHeader(variant, config), status, body)

\* save_profile, lines 612-619: what the endpoint answers when the
\* verification raised.
SaveProfileError(outcome) ==
    [status_code |-> 500, success |-> FALSE,
     message |-> [prefix |-> "Error: ", text |-> outcome.text,
                  status |-> outcome.status, detail |-> outcome.detail]]

NoStytchOutcome == StytchOutcome("pending", "", 0, "", NotLogged, NoHeader, NoData)

StytchIdle ==
    [pc |-> "idle", variant |-> "oauth",
     config |-> [project_id |-> "", secret |-> "", public_token |-> ""],
     transport |-> "response", status |-> 200, body |-> "<html>",
     out |-> NoStytchOutcome]

\* A call about to be made, and what the network will answer.
StytchCalls ==
    {c \in [pc : {"called"}, variant : Variants, config : Configs,
            transport : Transports, status : Statuses, body : Bodies,
            out : {NoStytchOutcome}] :
        c.transport # "response" => c.status = 200 /\ c.body = "<html>"}

\* The call runs to its return or raise.
VerifyStytch ==
    /\ stytch.pc = "called"
    /\ stytch' = [stytch EXCEPT
                    !.pc = "done",
                    !.out = VerifyStytchOutcome(stytch.variant, stytch.config,
                                stytch.transport, stytch.status, stytch.body)]
    /\ UNCHANGED <<table, now, sess, calls, prev, jwt, mcp, save, ext>>

\* ------------------------------------------------------------------ extract_twitter_profile

\* A key that the JSON object does not have; NoneVal is a key whose value
\* is null.
AbsentVal == "<absent>"

\* dict.get(key) and dict.get(key, default) on a value that is a string,
\* null or not there.
Get(value) == IF value = AbsentVal THEN NoneVal ELSE value
GetOr(value, default) == IF value = AbsentVal THEN default ELSE value

\* url.replace('_normal', '_400x400') on the URLs of the payloads.
ReplaceNormal(url) ==
    CASE url = "a_normal.jpg" -> "a_400x400.jpg"
      [] url = "b_normal.jpg" -> "b_400x400.jpg"
      [] OTHER -> url

\* provider_values.twitter: not there, an empty object, or an object with
\* some of id, screen_name, name, profile_image_url.
NoTwitter(kind) ==
    [kind |-> kind, id |-> AbsentVal, screen_name |-> AbsentVal,
     name |-> AbsentVal, profile_image_url |-> AbsentVal]

TwitterValues ==
    {NoTwitter("absent"), NoTwitter("empty")}
        \cup [kind : {"dict"}, id : {"t1", AbsentVal}, screen_name : {"ann", NoneVal},
              name : {"Ann A", AbsentVal},
              profile_image_url : {"a_normal.jpg", "a.png", AbsentVal, NoneVal}]

\* An entry of user.providers.
ProviderEntries ==
    [provider_type : {"Twitter"}, provider_subject : {"t9", AbsentVal},
     profile_picture_url : {"b_normal.jpg", AbsentVal, NoneVal}]
        \cup [provider_type : {"Google"}, provider_subject : {"g1"},
              profile_picture_url : {"g.png"}]

\* How many entries user.providers has at most.
MaxProviders == 2

ProviderLists ==
    UNION {[1..n -> ProviderEntries] : n \in 0..MaxProviders}

\* The parsed response of the authenticate API.  user, provider_values,
\* name, providers_kind: "dict" ("list"), "null" or "absent"; the other
\* fields are what the object holds when it is a dict.
Payloads ==
    {d \in [user : {"dict", "null", "absent"}, user_id : {"u1", AbsentVal},
            provider_values : {"dict", "null", "absent"}, twitter : TwitterValues,
            name : {"dict", "null", "absent"},
            first_name : {"Ann", "", AbsentVal, NoneVal},
            providers_kind : {"list", "null", "absent"}, providers : ProviderLists] :
        /\ d.user # "dict" =>
              /\ d.user_id = AbsentVal /\ d.name = "absent"
              /\ d.providers_kind = "absent"
        /\ d.provider_values # "dict" => d.twitter = NoTwitter("absent")
        /\ d.name # "dict" => d.first_name = AbsentVal
        /\ d.providers_kind # "list" => d.providers = <<>>
        /\ d.providers_kind = "list" /\ Len(d.providers) = MaxProviders =>
              d.twitter.kind # "dict" \/ d.twitter = [NoTwitter("dict") EXCEPT !.id = "t1"]}

\* What extract_twitter_profile returns: a profile dict, or None.
NoProfile == [found |-> FALSE, profile |-> NoCandidate]
Found(profile) == [found |-> TRUE, profile |-> profile]

\* Line 369: the first entry of the list whose provider_type is 'Twitter'.
RECURSIVE FirstTwitter(_)
FirstTwitter(providers) ==
    IF providers = <<>> THEN <<>>
    ELSE IF Head(providers).provider_type = "Twitter" THEN <<Head(providers)>>
    ELSE FirstTwitter(Tail(providers))

\* Lines 355-365: the profile of provider_values.twitter; the replace of
\* line 362 raises on a profile_image_url that is null.
ShapeA(stytch_user_id, twitter) ==
    IF twitter.profile_image_url = NoneVal THEN NoProfile
    ELSE Found(Cand(stytch_user_id, Get(twitter.id), Get(twitter.screen_name),
                    Get(twitter.name),
                    ReplaceNormal(GetOr(twitter.profile_image_url, ""))))

\* Mutant: the first name is used as it is found.
ShapeBNoUnknown(stytch_user_id, data, twitter_provider) ==
    IF data.name = "null" THEN NoProfile
    ELSE IF twitter_provider.profile_picture_url = NoneVal THEN NoProfile
    ELSE LET display_name == GetOr(data.first_name, "")
         IN  Found(Cand(stytch_user_id, Get(twitter_provider.provider_subject),
                        display_name, display_name,
                        ReplaceNormal(GetOr(twitter_provider.profile_picture_url, ""))))

\* Lines 371-395: the profile of the Twitter entry of user.providers; the
\* get of line 377 raises on a name that is null, the replace of line 392
\* on a profile_picture_url that is null.
ShapeB(stytch_user_id, data, twitter_provider) ==
    IF data.name = "null" THEN NoProfile
    ELSE IF twitter_provider.profile_picture_url = NoneVal THEN NoProfile
    ELSE LET first_name == GetOr(data.first_name, "")
             display_name == IF first_name \in {"", NoneVal} THEN "Unknown"
                             ELSE first_name
         IN  Found(Cand(stytch_user_id, Get(twitter_provider.provider_subject),
                        display_name, display_name,
                        ReplaceNormal(GetOr(twitter_provider.profile_picture_url, ""))))

\* extract_twitter_profile(stytch_data), lines 347-403; every exception
\* ends in the except branch, which returns None.
extract_twitter_profile(data) ==
    IF data.user = "null" THEN NoProfile
    ELSE IF data.provider_values = "null" THEN NoProfile
    ELSE IF data.twitter.kind = "dict"
        THEN ShapeA(Get(data.user_id), data.twitter)
    ELSE IF data.providers_kind = "null" THEN NoProfile
    ELSE LET twitter_provider == FirstTwitter(data.providers)
         IN  IF twitter_provider = <<>> THEN NoProfile
             ELSE ShapeB(Get(data.user_id), data, twitter_provider[1])

ExtIdle ==
    [pc |-> "idle",
     data |-> [user |-> "absent", user_id |-> AbsentVal, provider_values |-> "absent",
               twitter |-> NoTwitter("absent"), name |-> "absent",
               first_name |-> AbsentVal, providers_kind |-> "absent",
               providers |-> <<>>],
     result |-> NoProfile]

\* The call returns.
ExtractTwitterProfile ==
    /\ ext.pc = "called"
    /\ ext' = [ext EXCEPT !.pc = "done", !.result = extract_twitter_profile(ext.data)]
    /\ UNCHANGED <<table, now, sess, calls, prev, jwt, mcp, stytch, save>>

\* ------------------------------------------------------------------ save_profile

\* The responses of the session authenticate API that save_profile is run
\* on: both shapes, Shape A alone, Shape A with a null profile_image_url,
\* Shape B alone with and without a first name, no Twitter data, and Shape
\* A of a response without "user".
BothShapes ==
    [user |-> "dict", user_id |-> "u1", provider_values |-> "dict",
     twitter |-> [kind |-> "dict", id |-> "t1", screen_name |-> "ann",
                  name |-> "Ann A", profile_image_url |-> "a_normal.jpg"],
     name |-> "dict", first_name |-> "Ann", providers_kind |-> "list",
     providers |-> <<[provider_type |-> "Twitter", provider_subject |-> "t9",
                      profile_picture_url |-> "b_normal.jpg"]>>]

SavePayloads ==
    {BothShapes,
     [BothShapes EXCEPT !.providers_kind = "absent", !.providers = <<>>],
     [BothShapes EXCEPT !.twitter.profile_image_url = NoneVal],
     [BothShapes EXCEPT !.user_id = AbsentVal],
     [BothShapes EXCEPT !.provider_values = "absent", !.twitter = NoTwitter("absent")],
     [BothShapes EXCEPT !.provider_values = "absent", !.twitter = NoTwitter("absent"),
                        !.first_name = ""],
     [BothShapes EXCEPT !.provider_values = "absent", !.twitter = NoTwitter("absent"),
                        !.providers = <<>>],
     [BothShapes EXCEPT !.user = "absent", !.user_id = AbsentVal, !.name = "absent",
                        !.first_name = AbsentVal, !.providers_kind = "absent",
                        !.providers = <<>>]}

\* The text of a response whose JSON is data.
BodyOf(data) == IF data.user = "dict" THEN "{user:{..}}" ELSE "{error_type:..}"

\* The JSON body of the request: a session_token, none, an empty one, or
\* text that json.loads refuses.
SaveBodies == {"token", "no_token", "empty_token", "not_json"}

\* The JSONResponse of the endpoint: the status, "success", "message" (for
\* 'Error: ...' together with the text of the exception), and "profile".
NoError == [prefix |-> "", text |-> "", status |-> 0, detail |-> ""]
NoSaved == [twitter_handle |-> NoneVal, display_name |-> NoneVal]

SaveResponse(status_code, success, message, error, profile) ==
    [status_code |-> status_code, success |-> success, message |-> message,
     error |-> error, profile |-> profile]

NoResponse == SaveResponse(0, FALSE, "none", NoError, NoSaved)

\* Lines 612-619 on an exception.
ErrorResponse(outcome) ==
    LET e == SaveProfileError(outcome)
    IN  SaveResponse(e.status_code, e.success, e.message.prefix, e.message, NoSaved)

\* json.loads or get_db() raised.
Raising(detail) ==
    StytchOutcome("Unexpected", "", 0, detail, NotLogged, NoHeader, NoData)

\* Mutant: the profile is handed to the store without being looked at.
SaveStageUnchecked(body, outcome, extracted, db_ok) ==
    IF body = "not_json" THEN "error"
    ELSE IF body # "token" THEN "no_token"
    ELSE IF outcome.kind # "Ok" THEN "error"
    ELSE IF ~db_ok THEN "error"
    ELSE "upsert"

\* Lines 558-587: how far the request gets before the store is called:
\* "error" (the except branch of line 612), "no_token" (line 563),
\* "no_profile" (line 580), "upsert" (line 589).
SaveStage(body, outcome, extracted, db_ok) ==
    IF body = "not_json" THEN "error"
    ELSE IF body # "token" THEN "no_token"
    ELSE IF outcome.kind # "Ok" THEN "error"
    ELSE IF ~extracted.found THEN "no_profile"
    ELSE IF ~db_ok THEN "error"
    ELSE "upsert"

\* The response of the stages that end the request.
StageResponse(stage, body, outcome, db_ok) ==
    CASE stage = "no_token" ->
            SaveResponse(400, FALSE, "session_token required", NoError, NoSaved)
      [] stage = "no_profile" ->
            SaveResponse(400, FALSE, "No Twitter profile found", NoError, NoSaved)
      [] stage = "error" ->
            ErrorResponse(IF body = "not_json" THEN Raising("JSONDecodeError")
                          ELSE IF outcome.kind # "Ok" THEN outcome
                          ELSE Raising("OperationalError"))
      [] OTHER -> NoResponse

SaveIdle ==
    [pc |-> "idle", body |-> "no_token",
     config |-> [project_id |-> "", secret |-> "", public_token |-> ""],
     transport |-> "response", status |-> 200, text |-> "<html>",
     data |-> ExtIdle.data, db_ok |-> TRUE,
     outcome |-> NoStytchOutcome, extracted |-> NoProfile, stage |-> "none",
     provider_calls |-> 0, response |-> NoResponse]

\* The requests: the body posted, the configuration, what the provider will
\* answer (text is its body, data what a 200 holds), whether get_db() works.
SaveRequests ==
    {r \in [pc : {"received"}, body : SaveBodies, config : Configs,
            transport : Transports, status : Statuses, text : Bodies,
            data : SavePayloads \cup {ExtIdle.data}, db_ok : BOOLEAN,
            outcome : {NoStytchOutcome}, extracted : {NoProfile}, stage : {"none"},
            provider_calls : {0}, response : {NoResponse}] :
        /\ r.body # "token" =>
              /\ r.config = SaveIdle.config /\ r.transport = "response"
              /\ r.status = 200 /\ r.text = "<html>"
        /\ r.transport # "response" => r.status = 200 /\ r.text = "<html>"
        /\ (r.status = 200 /\ r.text \in {"{user:{..}}", "{error_type:..}"}) =>
              r.data \in SavePayloads /\ r.text = BodyOf(r.data)
        /\ ~(r.status = 200 /\ r.text \in {"{user:{..}}", "{error_type:..}"}) =>
              r.data = ExtIdle.data /\ r.db_ok}

\* save_profile from the request to the call of the store, lines 547-590.
SaveProfileBegin ==
    /\ save.pc = "received"
    /\ LET outcome == IF save.body = "token"
                      THEN VerifyStytchOutcome("session", save.config, save.transport,
                                               save.status, save.text)
                      ELSE NoStytchOutcome
           extracted == IF outcome.kind = "Ok" THEN extract_twitter_profile(save.data)
                        ELSE NoProfile
           stage == SaveStage(save.body, outcome, extracted, save.db_ok)
       IN  save' = [save EXCEPT
                      !.pc = IF stage = "upsert" THEN "upsert" ELSE "responded",
                      !.outcome = outcome,
                      !.extracted = extracted,
                      !.stage = stage,
                      !.provider_calls = IF outcome.header # NoHeader THEN 1 ELSE 0,
                      !.response = StageResponse(stage, save.body, outcome, save.db_ok)]
    /\ UNCHANGED <<table, now, sess, calls, prev, jwt, mcp, stytch, ext>>

\* The session save_profile opens.
SaveSession == "s1"

\* Line 591, get_or_create_profile(db, twitter_profile): the steps of the
\* call on the profile that was extracted.
SaveProfileStore ==
    /\ save.pc = "upsert"
    /\ \/ CallNoSubject(SaveSession, save.extracted.profile)
       \/ CallQueryFails(SaveSession, save.extracted.profile)
       \/ CallQueryFound(SaveSession, save.extracted.profile)
       \/ CallQueryAbsent(SaveSession, save.extracted.profile)
       \/ CommitUpdate(SaveSession)
       \/ CommitInsert(SaveSession)
       \/ \E at \in {"insert", "update", "commit"} : CommitFails(SaveSession, at)
       \/ Refresh(SaveSession)
       \/ RefreshFails(SaveSession)

\* Lines 593-608: the response is made of what the call returned.
SaveProfileRespond ==
    /\ save.pc = "upsert"
    /\ sess[SaveSession].op = "upsert" /\ sess[SaveSession].pc = "done"
    /\ save' = [save EXCEPT
                  !.pc = "responded",
                  !.response =
                      IF sess[SaveSession].result = "profile"
                          THEN SaveResponse(200, TRUE, "Profile saved successfully", NoError,
                                   [twitter_handle |-> sess[SaveSession].ret.twitter_handle,
                                    display_name |-> sess[SaveSession].ret.display_name])
                      ELSE SaveResponse(500, FALSE, "Failed to save profile", NoError,
                                        NoSaved)]
    /\ UNCHANGED <<table, now, sess, calls, prev, jwt, mcp, stytch, ext>>

\* Lines 609-610, finally: db.close().
SaveProfileClose ==
    /\ save.pc = "responded"
    /\ Close(SaveSession)

\* ------------------------------------------------------------------ specifications

StoreInit ==
    /\ table = [id \in Subjects |-> NoRow]
    /\ now = 0
    /\ sess = [s \in Sessions |-> Idle]
    /\ calls = 0
    /\ prev = NoPrev

\* Nothing but the store is at work.
OthersIdle ==
    /\ jwt = JwtIdle /\ mcp = McpIdle /\ stytch = StytchIdle
    /\ save = SaveIdle /\ ext = ExtIdle

Init == StoreInit /\ OthersIdle

SessionStep(s) ==
    \/ \E cand \in Candidates : CallNoSubject(s, cand)
    \/ \E cand \in Candidates : CallQueryFails(s, cand)
    \/ \E cand \in Candidates : CallQueryFound(s, cand)
    \/ \E cand \in Candidates : CallQueryAbsent(s, cand)
    \/ CommitUpdate(s)
    \/ CommitInsert(s)
    \/ \E at \in {"insert", "update", "commit"} : CommitFails(s, at)
    \/ Refresh(s)
    \/ RefreshFails(s)
    \/ \E id \in Subjects, fails \in BOOLEAN : GetProfileByUserId(s, id, fails)
    \/ Close(s)

\* Sessions of several server processes on one database: any interleaving.
Next ==
    \E s \in Sessions : SessionStep(s)

Spec == Init /\ [][Next]_vars

\* One server process: a call runs from its query to db.close() before the
\* next one begins.
SerialNext ==
    \E s \in Sessions : Quiet(s) /\ SessionStep(s)

SerialSpec == Init /\ [][SerialNext]_vars

\* verify_jwt_token on every token, configuration and state of the endpoint.
JwtInit ==
    /\ StoreInit /\ jwt \in JwtCalls /\ mcp = McpIdle /\ stytch = StytchIdle
    /\ save = SaveIdle /\ ext = ExtIdle

JwtNext == \E refetch \in BOOLEAN : VerifyJwtToken(refetch)

JwtSpec == JwtInit /\ [][JwtNext]_vars

\* The rows a tool request may find stored: each as get_or_create_profile
\* inserted it, with every column, without a handle and with an empty
\* avatar, without a display name.
StoredCandidates ==
    {Cand("u1", "t1", "a", "x", "p"),
     Cand("u1", "t1", NoneVal, "x", ""),
     Cand("u1", "t1", "a", NoneVal, "p")}

ToolTables ==
    {[id \in Subjects |-> NoRow]}
        \cup {[id \in Subjects |-> NewProfile(cand, 1, 1)] : cand \in StoredCandidates}

\* One tool request on a store that earlier requests have filled.
GatewayInit ==
    /\ table \in ToolTables
    /\ now = 1
    /\ sess = [s \in Sessions |-> Idle]
    /\ calls = 0
    /\ prev = NoPrev
    /\ jwt = JwtIdle
    /\ stytch = StytchIdle
    /\ save = SaveIdle
    /\ ext = ExtIdle
    /\ mcp \in McpRequests

GatewayNext ==
    \/ VerifyTokenStep
    \/ HandleGetMyProfile
    \/ \E arguments \in ToolArguments, failure \in StoreFailures :
            HandleCreateGradientTweet(arguments, failure)
    \/ HandleUnknownTool

GatewaySpec == GatewayInit /\ [][GatewayNext]_vars

\* The two authenticate calls on every configuration and every answer of
\* the network.
StytchInit ==
    /\ StoreInit /\ jwt = JwtIdle /\ mcp = McpIdle /\ stytch \in StytchCalls
    /\ save = SaveIdle /\ ext = ExtIdle

StytchNext == VerifyStytch

StytchSpec == StytchInit /\ [][StytchNext]_vars

\* extract_twitter_profile on every payload.
ExtractInit ==
    /\ StoreInit /\ jwt = JwtIdle /\ mcp = McpIdle /\ stytch = StytchIdle
    /\ save = SaveIdle
    /\ ext \in [pc : {"called"}, data : Payloads, result : {NoProfile}]

ExtractNext == ExtractTwitterProfile

ExtractSpec == ExtractInit /\ [][ExtractNext]_vars

\* One request of /api/save-profile on a store that earlier requests have
\* filled.
SaveInit ==
    /\ table \in ToolTables
    /\ now = 1
    /\ sess = [s \in Sessions |-> Idle]
    /\ calls = 0
    /\ prev = NoPrev
    /\ jwt = JwtIdle /\ mcp = McpIdle /\ stytch = StytchIdle /\ ext = ExtIdle
    /\ save \in SaveRequests

SaveNext ==
    \/ SaveProfileBegin
    \/ SaveProfileStore
    \/ SaveProfileRespond
    \/ SaveProfileClose

SaveSpec == SaveInit /\ [][SaveNext]_vars

\* ------------------------------------------------------------------ claims

\* The subject of the call session s is making.
SubjectOf(s) == sess[s].cand.stytch_user_id

\* Session s has returned from a call of get_or_create_profile.
UpsertDone(s) == sess[s].op = "upsert" /\ sess[s].pc = "done"

\* The row an undisturbed upsert of cand at time t leaves where it found row.
SerialUpsert(row, cand, t) ==
    FlushUpdate([k \in {"r"} |-> row], "r", Assigned(row, cand, t),
                DirtyColumns(row, cand))["r"]

\* Two calls that both found the row and ran to a successful return, the
\* second query made before the first commit (both loaded the same row).
Overlapped(s, t) ==
    /\ s # t
    /\ UpsertDone(s) /\ UpsertDone(t)
    /\ sess[s].result = "profile" /\ sess[t].result = "profile"
    /\ SubjectOf(s) = SubjectOf(t)
    /\ sess[s].snap.exists /\ sess[t].snap.exists
    /\ sess[s].snap = sess[t].snap
    /\ sess[s].wrote /\ sess[t].wrote

\* C1: two concurrent upserts of one subject, with different candidates, end
\* in the record that running the two calls one after the other, in one of
\* the two orders, would leave: the three synced fields come from one single
\* candidate.
C1_ConcurrentUpsertsSerializable ==
    \A s, t \in Sessions :
        Overlapped(s, t) =>
            LET r0 == sess[s].snap
                st == SerialUpsert(SerialUpsert(r0, sess[s].cand, 1), sess[t].cand, 2)
                ts == SerialUpsert(SerialUpsert(r0, sess[t].cand, 1), sess[s].cand, 2)
            IN  Synced(table[SubjectOf(s)]) \in {Synced(st), Synced(ts)}

\* C2: in a serial run, an upsert with the candidate of the upsert that
\* succeeded just before it writes nothing, and the record (updated_at
\* included) is returned and left exactly as it was found.
C2_UpsertIdempotent ==
    \A s \in Sessions :
        (UpsertDone(s) /\ prev.ok /\ prev.cand = sess[s].cand) =>
            /\ ~sess[s].wrote
            /\ sess[s].failAt = "none" =>
                  /\ sess[s].result = "profile"
                  /\ table[SubjectOf(s)] = sess[s].snap
                  /\ sess[s].ret = sess[s].snap

\* C2 witness: the second of two identical upserts has returned the record.
C2_Witness ==
    \E s \in Sessions :
        /\ UpsertDone(s) /\ prev.ok /\ prev.cand = sess[s].cand
        /\ sess[s].result = "profile"
        /\ sess[s].snap.updated_at > sess[s].snap.created_at

\* The call of session s found a record that differs from its candidate in
\* at least one synced column, and returned a profile.
ReconciledDone(s) ==
    /\ UpsertDone(s)
    /\ sess[s].result = "profile"
    /\ sess[s].snap.exists
    /\ Synced(sess[s].snap) # Synced(sess[s].cand)

\* C3: in a serial run, a successful upsert on a record that differs from the
\* candidate leaves all three synced fields equal to the candidate's and
\* updated_at strictly greater than before the call.
C3_UpsertReconciles ==
    \A s \in Sessions :
        ReconciledDone(s) =>
            /\ Synced(table[SubjectOf(s)]) = Synced(sess[s].cand)
            /\ table[SubjectOf(s)].updated_at > sess[s].snap.updated_at
            /\ sess[s].ret = table[SubjectOf(s)]

\* C3 witness: a reconciliation that changed one column only, on a record
\* that had been reconciled before.
C3_Witness ==
    \E s \in Sessions :
        /\ ReconciledDone(s)
        /\ Cardinality(sess[s].dirty) = 1
        /\ sess[s].snap.updated_at > sess[s].snap.created_at

\* C4: once a record exists, a step changes its updated_at only if the same
\* step changes the value of at least one synced column.
C4_UpdatedAtOnlyOnChange ==
    [][\A id \in Subjects :
          (table[id].exists /\ table'[id].updated_at # table[id].updated_at)
              => Synced(table'[id]) # Synced(table[id])]_vars

\* C5: every stored record has updated_at >= created_at.
C5_UpdatedNotBeforeCreated ==
    \A id \in Subjects :
        table[id].exists => table[id].updated_at >= table[id].created_at

\* C5 witness: the state right after a first-time upsert's insert, the record
\* carrying the time of the insert in both columns.
C5_Witness ==
    \E s \in Sessions :
        /\ sess[s].op = "upsert" /\ sess[s].pc = "refresh"
        /\ ~sess[s].snap.exists
        /\ table[SubjectOf(s)].exists
        /\ table[SubjectOf(s)].created_at = table[SubjectOf(s)].updated_at
        /\ table[SubjectOf(s)].created_at = now

\* C6: a record comes into being by the insert of an upsert only, and once it
\* exists it exists in every later state.
C6_CreatedOnceNeverDeleted ==
    [][\A id \in Subjects :
          /\ table[id].exists => table'[id].exists
          /\ (~table[id].exists /\ table'[id].exists) =>
                \E s \in Sessions :
                    /\ sess[s].op = "upsert" /\ sess[s].pc = "insert"
                    /\ sess[s].cand.stytch_user_id = id
                    /\ sess'[s].wrote]_vars

\* C6 witness: a record exists while a later call on it has failed and
\* rolled back.
C6_Witness ==
    \E s \in Sessions :
        /\ UpsertDone(s) /\ sess[s].failAt \in {"query", "update", "commit"}
        /\ table[SubjectOf(s)].exists

\* C7: an upsert that returns a store failure has written nothing.
C7_FailureWritesNothing ==
    \A s \in Sessions :
        (UpsertDone(s) /\ sess[s].failAt # "none") => ~sess[s].wrote

\* C8: a get_profile_by_user_id whose query failed returns something else
\* than the absent value it returns for a missing record.
C8_ReadFailureDistinct ==
    \A s \in Sessions :
        (sess[s].op = "get" /\ sess[s].pc = "done" /\ sess[s].failAt = "query")
            => sess[s].result # "none"

\* The call of verify_jwt_token has ended, on a token that parses and whose
\* exp claim lies in the past.
ExpiredTokenVerified ==
    /\ jwt.pc = "done"
    /\ jwt.project_id # ""
    /\ jwt.token.form = "jwt"
    /\ jwt.token.has_exp /\ jwt.token.exp < VerifyTime

\* The key set was fetched and holds the key the token's header names, and
\* the header names RS256.
KeyFound ==
    /\ jwt.up
    /\ jwt.token.kid \in jwt.keys
    /\ jwt.token.alg = "RS256"

SignatureValid == jwt.token.signer = jwt.token.kid

C10_UnknownKeyInvalidSignature ==
    (/\ jwt.pc = "done"
     /\ jwt.project_id # ""
     /\ jwt.token.form = "jwt"
     /\ jwt.up /\ jwt.token.alg = "RS256"
     /\ jwt.token.signer \notin jwt.keys)
        => /\ jwt.out.kind = "InvalidSignature"
           /\ jwt.fetches = 2

\* The failure kinds of the specification, by the exception that stands
\* for each: misconfiguration, malformed-token, key-fetch-failure,
\* signature-invalid, expired, issuer-mismatch, audience-mismatch.
SevenFailures ==
    {"ValueError", "DecodeError", "PyJWKClientConnectionError",
     "InvalidSignatureError", "ExpiredSignatureError", "InvalidIssuerError",
     "InvalidAudienceError"}

\* A call that verifies: a token of the provider, the endpoint up.
GoodJwtCall ==
    [pc |-> "called", project_id |-> ProjectId,
     token |-> [form |-> "jwt", kid |-> "k1", alg |-> "RS256", signer |-> "k1",
                iat |-> "int", has_exp |-> TRUE, exp |-> VerifyTime + 1,
                iss |-> AuthorizationServer, aud |-> ProjectId, sub |-> "u1"],
     keys |-> {"k1"}, up |-> TRUE, out |-> NoOutcome, fetches |-> 0]

\* One call for each of the seven failures: the good call with one thing
\* wrong.
FailingJwtCalls ==
    {[GoodJwtCall EXCEPT !.project_id = ""],
     [GoodJwtCall EXCEPT !.token = CHOOSE t \in Tokens : t.form = "garbage"],
     [GoodJwtCall EXCEPT !.up = FALSE],
     [GoodJwtCall EXCEPT !.token.signer = "k2"],
     [GoodJwtCall EXCEPT !.token.exp = 0],
     [GoodJwtCall EXCEPT !.token.iss = "https://other"],
     [GoodJwtCall EXCEPT !.token.aud = "other-project"]}

\* C11: JWT verification reports seven pairwise distinct failure kinds: a
\* call that fails in one of the seven ways is reported under a kind (the
\* except branch taken, which fixes the text of the exception up to the
\* wrapped detail) that no call failing in another of the seven ways is
\* reported under.
C11_SevenFailureKindsDistinct ==
    (jwt.pc = "done" /\ jwt.out.detail \in SevenFailures) =>
        \A c \in FailingJwtCalls :
            LET o == VerifyJwtOutcome(c.project_id, c.token, c.keys, c.up, VerifyTime)
            IN  o.detail # jwt.out.detail => o.kind # jwt.out.kind

\* The credential of the request is a valid JWT of the provider: well
\* formed, RS256, signed by the published key its header names, issued-at a
\* number, not expired, of this issuer and this audience.
ValidCredential ==
    /\ mcp.bearer
    /\ mcp.token.form = "jwt" /\ mcp.token.alg = "RS256"
    /\ mcp.up /\ mcp.token.kid \in mcp.keys /\ mcp.token.signer = mcp.token.kid
    /\ mcp.token.iat = "int"
    /\ (mcp.token.has_exp => mcp.token.exp > VerifyTime)
    /\ mcp.token.iss = AuthorizationServer /\ mcp.token.aud = ProjectId

Verified == mcp.pc = "verified" \/ (mcp.pc = "answered" /\ mcp.bearer)

Answered(tool) == mcp.pc = "answered" /\ mcp.tool = tool

C13_NoCredentialIsError ==
    (Answered("get-my-profile") /\ ~mcp.access.present) =>
        /\ mcp.result.isError
        /\ mcp.result.structured = "none"
        /\ mcp.result.user_id = NoneVal

C13_Witness ==
    /\ Answered("get-my-profile") /\ ~mcp.bearer
    /\ mcp.result.isError

\* The result shows the placeholder profile.
PlaceholderShown ==
    /\ mcp.result.profile.handle = "twitter_user"
    /\ mcp.result.profile.name = "Twitter User"
    /\ mcp.result.profile.avatar = DefaultProfile.avatar

\* The row stored for the identity of the request.
StoredRow == table[mcp.access.subject]

\* C14: create-gradient-tweet called without an authenticated identity
\* answers, whatever the content and the integer gradientIndex, with a
\* non-error payload that shows the fixed placeholder profile.
C14_NoIdentityPlaceholder ==
    (Answered("create-gradient-tweet") /\ ~mcp.access.present) =>
        /\ ~mcp.result.isError
        /\ mcp.result.structured = "tweet"
        /\ mcp.result.tweetContent = mcp.arguments.tweetContent
        /\ PlaceholderShown

C14_Witness ==
    /\ Answered("create-gradient-tweet") /\ ~mcp.bearer
    /\ table["u1"].exists
    /\ mcp.arguments.has_index /\ mcp.arguments.gradientIndex < 0
    /\ mcp.result.structured = "tweet" /\ PlaceholderShown

\* C15 as the specification states it: with a verified identity whose
\* subject has no stored profile the placeholder is shown, isError false;
\* with one whose subject has a stored profile, the handle, the display
\* name and the avatar of that stored profile are shown.
C15_StoredProfileShown ==
    (Answered("create-gradient-tweet") /\ mcp.access.present
        /\ mcp.failure = "none") =>
        /\ ~mcp.result.isError
        /\ IF StoredRow.exists
              THEN /\ mcp.result.profile.handle = StoredRow.twitter_handle
                   /\ mcp.result.profile.name = StoredRow.display_name
                   /\ mcp.result.profile.avatar = StoredRow.avatar_url
           ELSE PlaceholderShown

\* A stored column has nothing to show: it is null or the empty string.
Blank(value) == value \in {NoneVal, ""}

\* C15, amended: with a verified identity whose subject has no stored
\* profile the placeholder is shown, isError false; with one whose subject
\* has a stored profile, the handle, the display name and the avatar of
\* that profile are shown, each of them replaced by the placeholder's value
\* when the stored column is null or empty.
C15_StoredProfileOrPlaceholder ==
    (Answered("create-gradient-tweet") /\ mcp.access.present
        /\ mcp.failure = "none") =>
        /\ ~mcp.result.isError
        /\ IF StoredRow.exists
              THEN /\ mcp.result.profile.handle =
                         (IF Blank(StoredRow.twitter_handle) THEN "twitter_user"
                          ELSE StoredRow.twitter_handle)
                   /\ mcp.result.profile.name =
                         (IF Blank(StoredRow.display_name) THEN "Twitter User"
                          ELSE StoredRow.display_name)
                   /\ mcp.result.profile.avatar =
                         (IF Blank(StoredRow.avatar_url) THEN DefaultProfile.avatar
                          ELSE StoredRow.avatar_url)
           ELSE PlaceholderShown

C15_Witness ==
    /\ Answered("create-gradient-tweet") /\ mcp.access.present
    /\ mcp.failure = "none"
    /\ StoredRow.exists /\ StoredRow.twitter_handle = NoneVal
    /\ mcp.result.profile.handle = "twitter_user"
    /\ mcp.result.profile.name = "x"

\* C16: a failure of the store during the profile lookup of
\* create-gradient-tweet (opening the session, running the query, closing
\* the session) is treated as "no profile": the answer is a non-error
\* payload that shows the placeholder.
C16_StoreFailureIsNoProfile ==
    (Answered("create-gradient-tweet") /\ mcp.failure # "none") =>
        /\ ~mcp.result.isError
        /\ mcp.result.structured = "tweet"
        /\ PlaceholderShown

C16_Witness ==
    /\ Answered("create-gradient-tweet") /\ mcp.access.present
    /\ mcp.failure = "session"
    /\ StoredRow.exists /\ StoredRow.twitter_handle = "a"
    /\ ~mcp.result.isError /\ PlaceholderShown

\* The gradientIndex the request asks for; 0 when it names none.
RequestedIndex ==
    IF mcp.arguments.has_index THEN mcp.arguments.gradientIndex ELSE 0

\* C17: every integer index outside [0, 25) resolves to preset 0 and every
\* index inside to that preset; the gradientIndex and the gradientName of
\* the result name the same preset, which is also the preset
\* get_gradient_css renders for the index.
C17_IndexClamped ==
    Answered("create-gradient-tweet") =>
        /\ (RequestedIndex < 0 \/ RequestedIndex >= 25) => mcp.result.gradientIndex = 0
        /\ (0 <= RequestedIndex /\ RequestedIndex < 25) =>
              mcp.result.gradientIndex = RequestedIndex
        /\ mcp.result.gradientName = GRADIENTS[mcp.result.gradientIndex + 1].name
        /\ get_gradient_css(RequestedIndex)[2] = GRADIENTS[mcp.result.gradientIndex + 1].angle
        /\ get_gradient_css(RequestedIndex)[4] = GRADIENTS[mcp.result.gradientIndex + 1].colors[1]
        /\ get_gradient_css(RequestedIndex)[6] = GRADIENTS[mcp.result.gradientIndex + 1].colors[2]

C17_Witness ==
    /\ Answered("create-gradient-tweet")
    /\ RequestedIndex = 25
    /\ mcp.result.gradientIndex = 0 /\ mcp.result.gradientName = "Sunset Blaze"

\* The call of the authenticate API has returned or raised.
StytchDone == stytch.pc = "done"

\* The request was sent and a response came back.
Responded == StytchDone /\ stytch.out.header # NoHeader /\ stytch.transport = "response"

RejectionOf(status, body) ==
    VerifyStytchOutcome(stytch.variant, stytch.config, "response", status, body)

\* The exception an outcome raises: its text, with the status or the
\* detail that follows it.
Raised(outcome) ==
    [text |-> outcome.text, status |-> outcome.status, detail |-> outcome.detail]

\* C19: a network-level failure ends in a transport failure that is distinct
\* from what a rejection by the provider ends in: neither the exception of
\* the verification nor the answer save_profile makes of it is that of any
\* non-200 response.
C19_TransportDistinctFromRejection ==
    (StytchDone /\ stytch.out.header # NoHeader /\ stytch.transport # "response") =>
        /\ stytch.out.kind = "NetworkError"
        /\ \A status \in Statuses \ {200}, body \in Bodies :
              /\ RejectionOf(status, body).kind = "Rejected"
              /\ Raised(RejectionOf(status, body)) # Raised(stytch.out)
              /\ SaveProfileError(RejectionOf(status, body)) # SaveProfileError(stytch.out)

C19_Witness ==
    /\ StytchDone /\ stytch.variant = "session"
    /\ stytch.transport = "ReadTimeout"
    /\ stytch.out.kind = "NetworkError" /\ stytch.out.detail = "ReadTimeout"
    /\ stytch.out.header.scheme = "Basic"

\* C20 as the specification states it, for both variants (with the project
\* id configured): HTTP Basic with project:secret when the secret is
\* configured, otherwise the public token as Bearer, and the request is
\* refused for missing credentials only when neither is configured.
C20_BasicElseBearer ==
    (StytchDone /\ stytch.config.project_id # "") =>
        /\ stytch.config.secret # "" =>
              stytch.out.header = Basic(stytch.config.project_id, stytch.config.secret)
        /\ (stytch.config.secret = "" /\ stytch.config.public_token # "") =>
              stytch.out.header = Bearer(stytch.config.public_token)
        /\ stytch.out.kind = "ValueError" <=>
              (stytch.config.secret = "" /\ stytch.config.public_token = "")

\* C20, amended (with the project id configured): the OAuth-token variant
\* authenticates with HTTP Basic (project:secret) when the secret is
\* configured, otherwise with the public token as Bearer, and is refused
\* only when neither is configured; the session-token variant authenticates
\* with HTTP Basic only, and is refused whenever the secret is not
\* configured, a public token or none.
C20_BasicElseBearerOAuthOnly ==
    (StytchDone /\ stytch.config.project_id # "") =>
        /\ stytch.config.secret # "" =>
              stytch.out.header = Basic(stytch.config.project_id, stytch.config.secret)
        /\ (stytch.config.secret = "" /\ stytch.config.public_token # "") =>
              IF stytch.variant = "oauth"
                  THEN stytch.out.header = Bearer(stytch.config.public_token)
              ELSE stytch.out.kind = "ValueError" /\ stytch.out.header = NoHeader
        /\ stytch.out.kind = "ValueError" <=>
              /\ stytch.config.secret = ""
              /\ stytch.variant = "oauth" => stytch.config.public_token = ""

C20_Witness ==
    /\ StytchDone /\ stytch.variant = "oauth"
    /\ stytch.config.project_id # "" /\ stytch.config.secret = ""
    /\ stytch.out.header = Bearer("public")
    /\ stytch.out.kind = "Ok"

\* C21: a missing project identifier (or missing provider credentials) is
\* detected at startup and never first while a request is handled: no call
\* of verify_jwt_token made by a running server ends in the
\* misconfiguration failure.
C21_MisconfigurationNotPerRequest ==
    jwt.pc = "done" => jwt.out.kind # "Misconfigured"

\* The call of extract_twitter_profile has returned.
Extracted == ext.pc = "done"

\* The payload has Shape A data: an object provider_values.twitter that
\* is not empty.
HasShapeA == ext.data.provider_values = "dict" /\ ext.data.twitter.kind = "dict"

\* The entries of user.providers that are Twitter's.
TwitterEntries ==
    {i \in 1..Len(ext.data.providers) : ext.data.providers[i].provider_type = "Twitter"}

\* The payload has Shape B data.
HasShapeB == ext.data.providers_kind = "list" /\ TwitterEntries # {}

\* The first Twitter entry of user.providers.
TwitterEntry ==
    ext.data.providers[CHOOSE i \in TwitterEntries : \A j \in TwitterEntries : i <= j]

\* A field of the payload as the profile holds it: null when it is missing.
Optional(value) == IF value = AbsentVal THEN NoneVal ELSE value

\* C22: for every payload that has both Shape A and Shape B data,
\* extract_twitter_profile returns the profile of Shape A (its id, handle,
\* display name and avatar), whatever optional fields of Shape A are
\* missing or null.
C22_ShapeAFirst ==
    (Extracted /\ ext.data.user = "dict" /\ HasShapeA /\ HasShapeB) =>
        /\ ext.result.found
        /\ ext.result.profile.stytch_user_id = Optional(ext.data.user_id)
        /\ ext.result.profile.twitter_id = Optional(ext.data.twitter.id)
        /\ ext.result.profile.twitter_handle = Optional(ext.data.twitter.screen_name)
        /\ ext.result.profile.display_name = Optional(ext.data.twitter.name)
        /\ ext.data.twitter.profile_image_url \in {"a.png"} =>
              ext.result.profile.avatar_url = ext.data.twitter.profile_image_url

\* C23: extract_twitter_profile returns a profile when Shape A or Shape B
\* yields one, and the absent value otherwise: for a payload whose "user"
\* is not null the result is a profile exactly when the payload has Shape A
\* or Shape B data.
C23_ProfileWhenAShapeYieldsOne ==
    (Extracted /\ ext.data.user # "null") =>
        (ext.result.found <=> (HasShapeA \/ HasShapeB))

\* The payload has Shape B data only, and a profile was extracted.
ShapeBOnlyExtracted ==
    /\ Extracted /\ ext.data.user = "dict"
    /\ ~HasShapeA /\ HasShapeB /\ ext.result.found

\* C24 as the specification states it: for a payload that has only Shape B
\* data the extracted profile takes its native id from the matching
\* provider entry, and its handle equals user.name.first_name.
C24_HandleIsFirstName ==
    ShapeBOnlyExtracted =>
        /\ ext.result.profile.twitter_id = Optional(TwitterEntry.provider_subject)
        /\ ext.result.profile.twitter_handle = ext.data.first_name

\* C24, amended: for a payload that has only Shape B data the extracted
\* profile takes its native id from the first matching provider entry, and
\* its handle (and its display name) is user.name.first_name when that is a
\* non-empty string, and 'Unknown' when the first name is missing, null or
\* empty.
C24_HandleIsFirstNameOrUnknown ==
    ShapeBOnlyExtracted =>
        /\ ext.result.profile.twitter_id = Optional(TwitterEntry.provider_subject)
        /\ ext.result.profile.twitter_handle =
              (IF ext.data.first_name \in {AbsentVal, NoneVal, ""} THEN "Unknown"
               ELSE ext.data.first_name)
        /\ ext.result.profile.display_name = ext.result.profile.twitter_handle

C24_Witness ==
    /\ ShapeBOnlyExtracted
    /\ ext.data.name = "dict" /\ ext.data.first_name = ""
    /\ Len(ext.data.providers) = 2 /\ ext.data.providers[1].provider_type = "Google"
    /\ ext.result.profile.twitter_handle = "Unknown"
    /\ ext.result.profile.avatar_url = "b_400x400.jpg"

\* save_profile has got past its first steps (lines 558-588).
SaveBegun == save.pc # "received"

\* The request ended before the store: no credential, a failed
\* verification (or a body that is no JSON, or no database), no profile.
SaveFailedEarly == SaveBegun /\ save.stage \in {"no_token", "error", "no_profile"}

\* C25: save-profile takes the credential from the body, has the provider
\* verify it, extracts the profile, upserts it and then responds.  The
\* store is called and written only after the provider accepted the
\* credential and the extraction returned a profile; a missing credential,
\* a failed verification and an absent profile each end in an error
\* response with no provider call after the failing step and no call of
\* the store, and the success response comes only after the upsert returned
\* the stored record.
C25_SaveProfileOrder ==
    /\ [](SaveBegun =>
            /\ save.provider_calls > 0 => save.body = "token"
            /\ save.outcome.kind = "Ok" => save.provider_calls = 1
            /\ save.extracted.found => save.outcome.kind = "Ok"
            /\ save.stage = "upsert" => save.extracted.found
            /\ save.stage = "no_token" => save.provider_calls = 0
            /\ save.stage = "no_profile" => ~save.extracted.found)
    /\ [](SaveFailedEarly =>
            /\ save.pc = "responded"
            /\ ~save.response.success
            /\ save.response.status_code \in {400, 500}
            /\ calls = 0 /\ sess[SaveSession].op = "none")
    /\ [](save.response.success =>
            /\ save.stage = "upsert" /\ calls = 1
            /\ table[save.extracted.profile.stytch_user_id].exists
            /\ save.response.profile.twitter_handle =
                  table[save.extracted.profile.stytch_user_id].twitter_handle)
    /\ [][(table' # table \/ calls' # calls) =>
            /\ save.pc = "upsert" /\ save'.pc = "upsert"
            /\ save.outcome.kind = "Ok" /\ save.provider_calls = 1
            /\ save.extracted.found]_vars

C25_Witness ==
    /\ save.pc = "responded" /\ save.response.success
    /\ save.response.profile.twitter_handle = "ann"
    /\ table["u1"].twitter_handle = "ann" /\ table["u1"].updated_at > 1
    /\ sess[SaveSession].wrote

\* C26: of any number of concurrent first upserts of one subject, none
\* fails because another one inserted the record first: the commit of a
\* call that found no record, made when the record exists meanwhile,
\* does not end in the failure of the INSERT.  (There is never more than
\* one record of a subject: the table is a function of the subject.)
C26_ConcurrentFirstUpsertsAllReturn ==
    [][\A s \in Sessions :
          (/\ sess[s].op = "upsert" /\ sess[s].pc = "insert"
           /\ table[SubjectOf(s)].exists
           /\ sess'[s] # sess[s])
              => sess'[s].failAt # "insert"]_vars

\* C27: no step changes the Twitter id or created_at of a record that
\* exists, whatever the candidate of the upsert carries, and the record
\* stays the record of its subject (the key it is stored under); a step
\* changes only the handle, the display name, the avatar and updated_at.
C27_IdentityColumnsImmutable ==
    [][\A id \in Subjects :
          table[id].exists =>
              /\ table'[id].exists
              /\ table'[id].twitter_id = table[id].twitter_id
              /\ table'[id].created_at = table[id].created_at]_vars

\* C27 witness: an upsert whose candidate carries another Twitter id than
\* the record it found has written the record and returned it.
C27_Witness ==
    \E s \in Sessions :
        /\ ReconciledDone(s) /\ sess[s].wrote
        /\ sess[s].cand.twitter_id # sess[s].snap.twitter_id
        /\ sess[s].ret.twitter_id = sess[s].snap.twitter_id
        /\ sess[s].ret.created_at = sess[s].snap.created_at
        /\ sess[s].ret.updated_at > sess[s].snap.updated_at

\* C28: get-my-profile, create-gradient-tweet and the answer to an unknown
\* tool never modify the profile store: no step of a tool request changes
\* a row, adds one or removes one.
C28_ToolsNeverWrite ==
    [][table' = table]_vars

\* C28 witness: create-gradient-tweet has answered a verified subject whose
\* profile it read from the store, and the store holds what it held.
C28_Witness ==
    /\ Answered("create-gradient-tweet")
    /\ mcp.access.present /\ mcp.failure = "none"
    /\ table[mcp.access.subject] = NewProfile(Cand("u1", "t1", "a", "x", "p"), 1, 1)
    /\ mcp.result.profile.handle = "a"
    /\ now > 1

\* C29: StytchVerifier.verify_token yields an identity exactly for a token
\* that passes the signature, expiry, issuer and audience checks and has
\* a non-empty sub claim, and None for every other (a failure of
\* verify_jwt_token, no sub, an empty sub); the identity a handler
\* observes has the sub of that token as its subject, never an empty one.
C29_IdentityOnlyWithSubject ==
    Verified =>
        /\ mcp.access.present <=>
              (ValidCredential /\ mcp.token.sub \notin {NoneVal, ""})
        /\ mcp.access.present =>
              /\ mcp.access.subject = mcp.token.sub
              /\ mcp.access.subject \notin {NoneVal, ""}
              /\ mcp.access.claims.sub = mcp.token.sub

\* C29 witness: a handler has answered a request whose token passed every
\* check of verify_jwt_token and has an empty sub, without an identity.
C29_Witness ==
    /\ Answered("get-my-profile")
    /\ ValidCredential /\ mcp.token.sub = ""
    /\ ~mcp.access.present
    /\ mcp.result.isError

====
